---- MODULE Spec2Model ----
(***************************************************************************)
(* A model of the Coin class of the silent-pay wallet core: the JSON codec *)
(* (fromJSON / toJSON), the input builder (toInput) with its taproot tweak *)
(* path and its standard address path, and the fee estimator               *)
(* (estimateSpendingSize / estimateSpendingFee).                           *)
(*                                                                         *)
(* JavaScript values are tagged records [t, v]; strings are sequences of   *)
(* character codes; objects are sequences of <<key, value>> pairs in       *)
(* property order; Buffers are views [buf, off, len] into a heap of byte   *)
(* arrays, so that aliasing between a caller's buffer and a returned       *)
(* descriptor is visible.                                                  *)
(***************************************************************************)
EXTENDS Integers, Sequences, FiniteSets, TLC

VARIABLES coin, text, orig, mem, ret, writes

vars == <<coin, text, orig, mem, ret, writes>>

----------------------------------------------------------------------------
(* JavaScript values *)

Undefined == [t |-> "undefined", v |-> 0]

Null == [t |-> "null", v |-> 0]

NaN == [t |-> "NaN", v |-> 0]

Bool(b) == [t |-> "boolean", v |-> b]

Num(n) == [t |-> "number", v |-> n]

Str(s) == [t |-> "string", v |-> s]

Obj(pairs) == [t |-> "object", v |-> pairs]

Buf(view) == [t |-> "buffer", v |-> view]

\* The keys of an object, in property order.
Keys(o) == [i \in 1..Len(o.v) |-> o.v[i][1]]

HasKey(o, k) == \E i \in 1..Len(o.v) : o.v[i][1] = k

\* o.k : the property's value, or undefined when the object has no such
\* property.
Get(o, k) ==
    IF o.t = "object" /\ HasKey(o, k)
    THEN o.v[CHOOSE i \in 1..Len(o.v) : o.v[i][1] = k][2]
    ELSE Undefined

\* o.k = x : an existing property keeps its place, a new one is appended.
Set(o, k, x) ==
    IF HasKey(o, k)
    THEN Obj([i \in 1..Len(o.v) |-> IF o.v[i][1] = k THEN <<k, x>> ELSE o.v[i]])
    ELSE Obj(Append(o.v, <<k, x>>))

\* The truthiness of a value, as an if (...) tests it.
Truthy(x) ==
    CASE x.t = "undefined" -> FALSE
      [] x.t = "null" -> FALSE
      [] x.t = "NaN" -> FALSE
      [] x.t = "boolean" -> x.v
      [] x.t = "number" -> x.v # 0
      [] x.t = "string" -> Len(x.v) > 0
      [] OTHER -> TRUE

\* A repeated character.
Rep(c, n) == SubSeq([i \in 1..n |-> c], 1, n)

\* The result of a call: a returned value or a thrown error.
Return(x) == [kind |-> "return", val |-> x, err |-> ""]

Throw(e) == [kind |-> "throw", val |-> Undefined, err |-> e]

----------------------------------------------------------------------------
(* JSON text: a sequence of tokens [k, v].  A string token carries the     *)
(* characters between its quotes (escapes included), a number token its    *)
(* characters, a property-name token the name.                             *)

Punct(c) == [k |-> c, v |-> <<>>]

StringToken(chars) == [k |-> "string", v |-> chars]

NumberToken(chars) == [k |-> "number", v |-> chars]

NameToken(key) == [k |-> "name", v |-> key]

QUOTE == 34

BACKSLASH == 92

MINUS == 45

ZERO == 48

\* JSON.stringify's quoting of a string: a quote or a backslash is preceded
\* by a backslash.
RECURSIVE QuoteJSON(_)
QuoteJSON(s) ==
    IF \A i \in 1..Len(s) : s[i] \notin {QUOTE, BACKSLASH} THEN s
    ELSE (IF Head(s) \in {QUOTE, BACKSLASH}
          THEN <<BACKSLASH, Head(s)>>
          ELSE <<Head(s)>>) \o QuoteJSON(Tail(s))

\* The decimal digits of a non-negative integer.
RECURSIVE Digits(_)
Digits(n) ==
    IF n < 10 THEN <<ZERO + n>>
    ELSE Append(Digits(n \div 10), ZERO + (n % 10))

NumberToString(n) == IF n < 0 THEN <<MINUS>> \o Digits(-n) ELSE Digits(n)

\* JSON.stringify(x).  A property whose value is undefined is left out; a
\* number that is not finite becomes null.
RECURSIVE JSON_stringify(_)
RECURSIVE SerializeMembers(_, _, _)
JSON_stringify(x) ==
    CASE x.t = "null" -> <<Punct("null")>>
      [] x.t = "NaN" -> <<Punct("null")>>
      [] x.t = "boolean" -> <<Punct(IF x.v THEN "true" ELSE "false")>>
      [] x.t = "number" -> <<NumberToken(NumberToString(x.v))>>
      [] x.t = "string" -> <<StringToken(QuoteJSON(x.v))>>
      [] x.t = "object" ->
            <<Punct("{")>> \o SerializeMembers(x.v, 1, TRUE) \o <<Punct("}")>>
      [] OTHER -> <<>>

SerializeMembers(pairs, i, first) ==
    IF i > Len(pairs) THEN <<>>
    ELSE IF pairs[i][2].t = "undefined"
         THEN SerializeMembers(pairs, i + 1, first)
         ELSE (IF first THEN <<>> ELSE <<Punct(",")>>)
              \o <<NameToken(pairs[i][1]), Punct(":")>>
              \o JSON_stringify(pairs[i][2])
              \o SerializeMembers(pairs, i + 1, FALSE)

\* The characters a string token stands for: [ok, s].  A backslash must be
\* followed by a quote or a backslash; a bare quote ends the string early.
RECURSIVE Unquote(_)
Unquote(chars) ==
    IF \A i \in 1..Len(chars) : chars[i] \notin {QUOTE, BACKSLASH}
    THEN [ok |-> TRUE, s |-> chars]
    ELSE IF Head(chars) = BACKSLASH
         THEN IF Len(chars) >= 2 /\ chars[2] \in {QUOTE, BACKSLASH}
              THEN LET r == Unquote(Tail(Tail(chars)))
                   IN  [ok |-> r.ok, s |-> <<chars[2]>> \o r.s]
              ELSE [ok |-> FALSE, s |-> <<>>]
         ELSE IF Head(chars) = QUOTE
              THEN [ok |-> FALSE, s |-> <<>>]
              ELSE LET r == Unquote(Tail(chars))
                   IN  [ok |-> r.ok, s |-> <<Head(chars)>> \o r.s]

IsDigit(c) == c >= ZERO /\ c <= ZERO + 9

\* The value of a sequence of digits.
RECURSIVE DigitsValue(_)
DigitsValue(chars) ==
    IF chars = <<>> THEN 0
    ELSE 10 * DigitsValue(SubSeq(chars, 1, Len(chars) - 1))
         + (chars[Len(chars)] - ZERO)

\* A JSON integer: an optional minus sign, then 0 or digits with no leading 0.
IsJSONInt(chars) ==
    LET d == IF chars # <<>> /\ Head(chars) = MINUS THEN Tail(chars) ELSE chars
    IN  /\ d # <<>>
        /\ \A i \in 1..Len(d) : IsDigit(d[i])
        /\ (Len(d) > 1 => d[1] # ZERO)

ParseNumber(chars) ==
    IF Head(chars) = MINUS THEN 0 - DigitsValue(Tail(chars))
    ELSE DigitsValue(chars)

ParseFail == [ok |-> FALSE, val |-> Undefined, next |-> 0]

\* JSON.parse's value at token i: [ok, val, next].
RECURSIVE ParseValue(_, _)
RECURSIVE ParseMembers(_, _, _)
ParseValue(toks, i) ==
    IF i > Len(toks) THEN ParseFail
    ELSE LET tok == toks[i] IN
      CASE tok.k = "null" -> [ok |-> TRUE, val |-> Null, next |-> i + 1]
        [] tok.k = "true" -> [ok |-> TRUE, val |-> Bool(TRUE), next |-> i + 1]
        [] tok.k = "false" -> [ok |-> TRUE, val |-> Bool(FALSE), next |-> i + 1]
        [] tok.k = "number" ->
              IF IsJSONInt(tok.v)
              THEN [ok |-> TRUE, val |-> Num(ParseNumber(tok.v)), next |-> i + 1]
              ELSE ParseFail
        [] tok.k = "string" ->
              LET u == Unquote(tok.v)
              IN  IF u.ok
                  THEN [ok |-> TRUE, val |-> Str(u.s), next |-> i + 1]
                  ELSE ParseFail
        [] tok.k = "{" ->
              IF i + 1 <= Len(toks) /\ toks[i + 1].k = "}"
              THEN [ok |-> TRUE, val |-> Obj(<<>>), next |-> i + 2]
              ELSE ParseMembers(toks, i + 1, Obj(<<>>))
        [] OTHER -> ParseFail

\* The members of an object from token i on, after "{" or ",": a name, a
\* colon, a value, then "," or "}".  A repeated name keeps its last value.
ParseMembers(toks, i, acc) ==
    IF i + 1 > Len(toks) \/ toks[i].k # "name" \/ toks[i + 1].k # ":"
    THEN ParseFail
    ELSE LET r == ParseValue(toks, i + 2) IN
         IF ~r.ok \/ r.next > Len(toks) THEN ParseFail
         ELSE LET o == Set(acc, toks[i].v, r.val) IN
              CASE toks[r.next].k = "}" ->
                      [ok |-> TRUE, val |-> o, next |-> r.next + 1]
                [] toks[r.next].k = "," -> ParseMembers(toks, r.next + 1, o)
                [] OTHER -> ParseFail

\* JSON.parse(text): the whole text is one value, or a SyntaxError.
JSON_parse(toks) ==
    LET r == ParseValue(toks, 1)
    IN  IF r.ok /\ r.next = Len(toks) + 1
        THEN Return(r.val)
        ELSE Throw("SyntaxError")

----------------------------------------------------------------------------
(* The Coin class: constructor and codec *)

\* Object.assign(target, source): the source's own properties, in order.  A
\* source that is no object (null, a number, a boolean) has none; the texts
\* of a bare string or an array are not among those of this model.
RECURSIVE AssignFrom(_, _, _)
AssignFrom(target, pairs, i) ==
    IF i > Len(pairs) THEN target
    ELSE AssignFrom(Set(target, pairs[i][1], pairs[i][2]), pairs, i + 1)

Object_assign(target, source) ==
    IF source.t = "object" THEN AssignFrom(target, source.v, 1) ELSE target

\* new Coin(partial)
Coin(partial) == Object_assign(Obj(<<>>), partial)

\* Coin.fromJSON(json)
fromJSON(json) ==
    LET parsed == JSON_parse(json)
    IN  IF parsed.kind = "throw" THEN parsed ELSE Return(Coin(parsed.val))

\* toJSON with the tweak left out of the record.
toJSON_NoTweak(this) ==
    JSON_stringify(Obj(<< <<"txid", Get(this, "txid")>>,
                          <<"vout", Get(this, "vout")>>,
                          <<"value", Get(this, "value")>>,
                          <<"address", Get(this, "address")>>,
                          <<"status", Get(this, "status")>> >>))

\* coin.toJSON()
toJSON(this) ==
    JSON_stringify(Obj(<< <<"txid", Get(this, "txid")>>,
                          <<"vout", Get(this, "vout")>>,
                          <<"value", Get(this, "value")>>,
                          <<"address", Get(this, "address")>>,
                          <<"status", Get(this, "status")>>,
                          <<"tweak", Get(this, "tweak")>> >>))

----------------------------------------------------------------------------
(* Byte strings and hex text *)

\* The value of a hex digit character, or -1.
HexVal(c) ==
    CASE c >= 48 /\ c <= 57 -> c - 48
      [] c >= 97 /\ c <= 102 -> c - 87
      [] c >= 65 /\ c <= 70 -> c - 55
      [] OTHER -> 0 - 1

\* Buffer.from(s, 'hex'): the bytes of the leading pairs of hex digits; the
\* decoding stops at the first pair that is not two hex digits.
RECURSIVE HexDecodeFrom(_, _)
HexDecodeFrom(s, i) ==
    IF i + 1 > Len(s) \/ HexVal(s[i]) < 0 \/ HexVal(s[i + 1]) < 0 THEN <<>>
    ELSE <<16 * HexVal(s[i]) + HexVal(s[i + 1])>> \o HexDecodeFrom(s, i + 2)

HexDecode(s) == HexDecodeFrom(s, 1)

HexChar(n) == IF n < 10 THEN 48 + n ELSE 87 + n

\* The hex text of a byte string.
RECURSIVE HexEncode(_)
HexEncode(b) ==
    IF b = <<>> THEN <<>>
    ELSE <<HexChar(Head(b) \div 16), HexChar(Head(b) % 16)>> \o HexEncode(Tail(b))

\* Big-endian comparison of two byte strings of one length: a < b.
RECURSIVE BytesLessFrom(_, _, _)
BytesLessFrom(a, b, i) ==
    IF i > Len(a) THEN FALSE
    ELSE IF a[i] # b[i] THEN a[i] < b[i]
         ELSE BytesLessFrom(a, b, i + 1)

BytesLess(a, b) == BytesLessFrom(a, b, 1)

\* A number below 256 as a 32-byte big-endian byte string.
Bytes32(n) == Rep(0, 31) \o <<n>>

----------------------------------------------------------------------------
(* The curve of tiny-secp256k1, scaled down: y^2 = x^3 + 7 over the field  *)
(* of FIELD_P elements, a group of prime order GROUP_N with generator G.   *)
(* Keys, tweaks and coordinates keep their 32-byte encodings.              *)

FIELD_P == 13

GROUP_N == 7

Infinity == [inf |-> TRUE, x |-> 0, y |-> 0]

Point(x, y) == [inf |-> FALSE, x |-> x, y |-> y]

G == Point(7, 8)

FieldInv(a) == CHOOSE i \in 1..(FIELD_P - 1) : (i * a) % FIELD_P = 1

OnCurve(x, y) == (y * y) % FIELD_P = (x * x * x + 7) % FIELD_P

\* The group law.
PointAdd(P, Q) ==
    CASE P.inf -> Q
      [] Q.inf -> P
      [] P.x = Q.x /\ (P.y + Q.y) % FIELD_P = 0 -> Infinity
      [] OTHER ->
          LET lam == IF P.x = Q.x
                     THEN (3 * P.x * P.x * FieldInv((2 * P.y) % FIELD_P)) % FIELD_P
                     ELSE ((Q.y - P.y) * FieldInv((Q.x - P.x) % FIELD_P)) % FIELD_P
              x3 == (lam * lam - P.x - Q.x) % FIELD_P
              y3 == (lam * (P.x - x3) - P.y) % FIELD_P
          IN  Point(x3, y3)

RECURSIVE ScalarMul(_, _)
ScalarMul(k, P) == IF k = 0 THEN Infinity ELSE PointAdd(P, ScalarMul(k - 1, P))

\* Whether a byte string is the x coordinate of a point of the curve.
IsXOnlyPoint(p) ==
    /\ Len(p) = 32
    /\ BytesLess(p, Bytes32(FIELD_P))
    /\ \E y \in 0..(FIELD_P - 1) : OnCurve(p[32], y)

\* The point with this x coordinate and an even y.
LiftX(x) ==
    Point(x, CHOOSE y \in 0..(FIELD_P - 1) : OnCurve(x, y) /\ y % 2 = 0)

\* A tweak: 32 bytes, below the group order.
IsTweak(tweak) == Len(tweak) = 32 /\ BytesLess(tweak, Bytes32(GROUP_N))

\* xOnlyPointAddTweak with the tweak not checked: a scalar is reduced modulo
\* the group order, and a sum at infinity gives a key of zeros.
xOnlyPointAddTweak_NoTweakCheck(p, tweak) ==
    IF ~IsXOnlyPoint(p) THEN Throw("Expected Point")
    ELSE IF Len(tweak) # 32 THEN Throw("Expected Tweak")
    ELSE LET Q == PointAdd(LiftX(p[32]), ScalarMul(tweak[32] % GROUP_N, G))
         IN  Return(Obj(<< <<"parity", Num(Q.y % 2)>>,
                           <<"xOnlyPubkey",
                             [t |-> "bytes", v |-> Bytes32(Q.x)]>> >>))

\* xOnlyPointAddTweak with the point not checked: what is no x coordinate
\* of a point is taken for the generator's.
xOnlyPointAddTweak_NoPointCheck(p, tweak) ==
    IF ~IsTweak(tweak) THEN Throw("Expected Tweak")
    ELSE LET P == IF IsXOnlyPoint(p) THEN LiftX(p[32]) ELSE G
             Q == PointAdd(P, ScalarMul(tweak[32], G))
         IN  IF Q.inf THEN Return(Null)
             ELSE Return(Obj(<< <<"parity", Num(Q.y % 2)>>,
                                <<"xOnlyPubkey",
                                  [t |-> "bytes", v |-> Bytes32(Q.x)]>> >>))

\* ecc.xOnlyPointAddTweak(p, tweak): throws on a bad point or a bad tweak;
\* returns null when the sum is the point at infinity, {parity, xOnlyPubkey}
\* otherwise.
xOnlyPointAddTweak(p, tweak) ==
    IF ~IsXOnlyPoint(p) THEN Throw("Expected Point")
    ELSE IF ~IsTweak(tweak) THEN Throw("Expected Tweak")
    ELSE LET Q == PointAdd(LiftX(p[32]), ScalarMul(tweak[32], G))
         IN  IF Q.inf THEN Return(Null)
             ELSE Return(Obj(<< <<"parity", Num(Q.y % 2)>>,
                                <<"xOnlyPubkey",
                                  [t |-> "bytes", v |-> Bytes32(Q.x)]>> >>))

----------------------------------------------------------------------------
(* Addresses: the segwit address text of a witness program is the          *)
(* network's prefix, the separator "1", a version character (q for 0, p    *)
(* for 1) and the program; the checksum is left out and the program is     *)
(* written in hex.                                                         *)

SEPARATOR == 49

VersionChar(version) == IF version = 0 THEN 113 ELSE 112

bitcoin == [name |-> "bitcoin", bech32 |-> <<98, 99>>]

testnet == [name |-> "testnet", bech32 |-> <<116, 98>>]

Networks == {bitcoin, testnet}

\* address.toBech32(program, version, prefix)
toBech32(program, version, prefix) ==
    prefix \o <<SEPARATOR, VersionChar(version)>> \o HexEncode(program)

\* address.fromBech32(address): [ok, prefix, version, data].
fromBech32(address) ==
    LET bad == [ok |-> FALSE, prefix |-> <<>>, version |-> 0, data |-> <<>>]
        seps == {i \in 1..Len(address) : address[i] = SEPARATOR}
    IN  IF seps = {} THEN bad
        ELSE LET at == CHOOSE i \in seps : \A j \in seps : i <= j
                 rest == SubSeq(address, at + 2, Len(address))
             IN  IF at = 1 \/ at + 1 > Len(address)
                    \/ address[at + 1] \notin {VersionChar(0), VersionChar(1)}
                    \/ Len(rest) % 2 # 0
                    \/ \E i \in 1..Len(rest) : HexVal(rest[i]) < 0
                 THEN bad
                 ELSE [ok |-> TRUE,
                       prefix |-> SubSeq(address, 1, at - 1),
                       version |-> IF address[at + 1] = VersionChar(0) THEN 0 ELSE 1,
                       data |-> HexDecode(rest)]

\* The output script of a witness program: the version's opcode, a push of
\* the program's length, the program.
WitnessScript(version, program) ==
    <<IF version = 0 THEN 0 ELSE 80 + version, Len(program)>> \o program

\* address.toOutputScript(address, network): the script's bytes, or an error
\* for an address that does not decode, is of another network, or holds a
\* program of no known kind.
toOutputScript(address, network) ==
    IF address.t # "string" THEN Throw("has no matching Script")
    ELSE LET d == fromBech32(address.v) IN
         IF ~d.ok THEN Throw("has no matching Script")
         ELSE IF d.prefix # network.bech32 THEN Throw("has an invalid prefix")
         ELSE IF (d.version = 0 /\ Len(d.data) \in {20, 32})
                 \/ (d.version = 1 /\ Len(d.data) = 32)
              THEN Return([t |-> "bytes", v |-> WitnessScript(d.version, d.data)])
              ELSE Throw("has no matching Script")

----------------------------------------------------------------------------
(* Buffers: a Buffer is a view [buf, off, len] of a byte array of the heap *)

View(buf, off, len) == [buf |-> buf, off |-> off, len |-> len]

\* The bytes a view shows.
Deref(heap, view) == SubSeq(heap[view.buf], view.off + 1, view.off + view.len)

\* buffer.subarray(start, end): a view of the same memory.
Subarray(view, start, end) ==
    LET e == IF end > view.len THEN view.len ELSE end
        b == IF start > e THEN e ELSE start
    IN  View(view.buf, view.off + b, e - b)

\* The heap with a new byte array.
Alloc(heap, buf, bytes) == [b \in DOMAIN heap \cup {buf} |->
                              IF b = buf THEN bytes ELSE heap[b]]

----------------------------------------------------------------------------
(* The input builder *)

\* The normalisation with only the even marker 0x02 recognised.
ensureXOnly_Only02(heap, spendPubBuffer) ==
    IF spendPubBuffer.len = 33 /\ Deref(heap, spendPubBuffer)[1] = 2
    THEN Subarray(spendPubBuffer, 1, 33)
    ELSE spendPubBuffer

\* ensure x-only, if it's a compressed pubkey: a 33-byte buffer that starts
\* with 0x02 or 0x03 is replaced by the view of its last 32 bytes.
ensureXOnly(heap, spendPubBuffer) ==
    IF spendPubBuffer.len = 33 /\ Deref(heap, spendPubBuffer)[1] \in {2, 3}
    THEN Subarray(spendPubBuffer, 1, 33)
    ELSE spendPubBuffer

\* The descriptor of a taproot input.
TaprootDescriptor(this, script, internalKey) ==
    Obj(<< <<"hash", Get(this, "txid")>>,
           <<"index", Get(this, "vout")>>,
           <<"witnessUtxo", Obj(<<
               <<"script", Buf(View("script", 0, Len(script)))>>,
               <<"value", Get(this, "value")>> >>)>>,
           <<"tapInternalKey", Buf(internalKey)>> >>)

\* The taproot branch with the script built from the spend key itself.
taprootInput_UntweakedScript(this, heap, spendPub) ==
    LET tweak == Get(this, "tweak")
        result == IF tweak.t # "string" THEN Throw("TypeError")
                  ELSE xOnlyPointAddTweak(Deref(heap, spendPub),
                                          HexDecode(tweak.v))
    IN  IF result.kind = "throw" THEN [out |-> result, heap |-> heap]
        ELSE IF result.val.t # "object"
             THEN [out |-> Throw("TypeError"), heap |-> heap]
             ELSE LET script == <<81, 32>> \o Deref(heap, spendPub)
                  IN  [out |-> Return(TaprootDescriptor(this, script, spendPub)),
                       heap |-> Alloc(heap, "script", script)]

\* The branch of toInput for a coin with a tweak: the tweak is decoded from
\* hex and added to the x-only spend key; the script is OP_1 (0x51), a
\* 32-byte push (0x20) and the tweaked key, in a new buffer; the internal
\* key is the spend-key view itself.
taprootInput(this, heap, spendPub) ==
    LET tweak == Get(this, "tweak")
        \* Buffer.from of a value that is no string throws
        result == IF tweak.t # "string" THEN Throw("TypeError")
                  ELSE xOnlyPointAddTweak(Deref(heap, spendPub),
                                          HexDecode(tweak.v))
    IN  IF result.kind = "throw" THEN [out |-> result, heap |-> heap]
        ELSE IF result.val.t # "object"
             THEN \* const { xOnlyPubkey } = null
                  [out |-> Throw("TypeError"), heap |-> heap]
             ELSE LET script == <<81, 32>> \o Get(result.val, "xOnlyPubkey").v
                  IN  [out |-> Return(TaprootDescriptor(this, script, spendPub)),
                       heap |-> Alloc(heap, "script", script)]

\* The descriptor of a standard input.
StandardDescriptor(this, script) ==
    Obj(<< <<"hash", Get(this, "txid")>>,
           <<"index", Get(this, "vout")>>,
           <<"witnessUtxo", Obj(<<
               <<"script", Buf(View("script", 0, Len(script)))>>,
               <<"value", Get(this, "value")>> >>)>> >>)

\* The standard branch with the address always decoded for mainnet.
standardInput_Mainnet(this, network, heap) ==
    LET decoded == toOutputScript(Get(this, "address"), bitcoin)
    IN  IF decoded.kind = "throw" THEN [out |-> decoded, heap |-> heap]
        ELSE [out |-> Return(StandardDescriptor(this, decoded.val.v)),
              heap |-> Alloc(heap, "script", decoded.val.v)]

\* The branch of toInput for a coin without a tweak: the script is decoded
\* from the coin's address for the network.
standardInput(this, network, heap) ==
    LET decoded == toOutputScript(Get(this, "address"), network)
    IN  IF decoded.kind = "throw" THEN [out |-> decoded, heap |-> heap]
        ELSE [out |-> Return(StandardDescriptor(this, decoded.val.v)),
              heap |-> Alloc(heap, "script", decoded.val.v)]

\* coin.toInput(network, spendPubBuffer), on a heap that holds the caller's
\* buffer: [out, heap], the result and the heap the call leaves.
toInput(this, network, heap, spendPubBuffer) ==
    IF Truthy(Get(this, "tweak"))
    THEN taprootInput(this, heap, ensureXOnly(heap, spendPubBuffer))
    ELSE standardInput(this, network, heap)

----------------------------------------------------------------------------
(* The fee estimator *)

WITNESS_SCALE_FACTOR == 4

\* The size with the witness bytes divided rounding down.
estimateSpendingSize_RoundsDown(this) ==
    (32 + 4 + 4 + 1) + ((1 + (1 + 73) + (1 + 33)) \div WITNESS_SCALE_FACTOR)

\* coin.estimateSpendingSize()
estimateSpendingSize(this) ==
    LET total0 == 0
        \* Outpoint (hash and index) + sequence
        total1 == total0 + 32 + 4 + 4
        \* legacy script size (0x00)
        total2 == total1 + 1
        size0 == 0
        \* varint-items-len
        size1 == size0 + 1
        \* varint-len [signature]
        size2 == size1 + 1 + 73
        \* varint-len [key]
        size3 == size2 + 1 + 33
        \* vsize
        size4 == (size3 + WITNESS_SCALE_FACTOR - 1) \div WITNESS_SCALE_FACTOR
    IN  total2 + size4

\* A fee rate or a fee that need not be whole: n / d, in lowest terms.
GCD(a, b) ==
    CHOOSE g \in 1..b : /\ a % g = 0
                        /\ b % g = 0
                        /\ \A h \in (g + 1)..b : (a % h # 0) \/ (b % h # 0)

Ratio(n, d) == [n |-> n \div GCD(n, d), d |-> d \div GCD(n, d)]

\* The fee rounded up to a whole number.
estimateSpendingFee_RoundsUp(this, feeRate) ==
    Ratio((estimateSpendingSize(this) * feeRate.n + feeRate.d - 1)
              \div feeRate.d, 1)

\* coin.estimateSpendingFee(feeRate)
estimateSpendingFee(this, feeRate) ==
    Ratio(estimateSpendingSize(this) * feeRate.n, feeRate.d)

----------------------------------------------------------------------------
(* The inputs of the model *)

MaxVout == 1

MaxFeeRate == 5

MaxWrites == 1

CoinFields == {"txid", "vout", "value", "address", "status", "tweak"}

RequiredFields == {"txid", "vout", "value", "address", "status"}

Txids == {Str(Rep(97, 64))}

Values == {Num(100000), NaN}

\* The witness programs the addresses pay to.
Hash20 == [i \in 1..20 |-> 16 + i]

Hash32 == [i \in 1..32 |-> 160 + i]

\* What each address of the model encodes: network prefix, version, program.
AddressPlans ==
    { [prefix |-> testnet.bech32, version |-> 0, program |-> Hash20],
      [prefix |-> bitcoin.bech32, version |-> 0, program |-> Hash20],
      [prefix |-> testnet.bech32, version |-> 1, program |-> Hash32],
      [prefix |-> testnet.bech32, version |-> 0, program |-> <<1, 2, 3>>] }

AddressOf(plan) == Str(toBech32(plan.program, plan.version, plan.prefix))

\* The addresses of the model's coins, and a string that is no address and
\* holds a quote and a backslash.
Addresses == {AddressOf(plan) : plan \in AddressPlans}
                 \cup {Str(<<120, QUOTE, BACKSLASH, 121>>)}

Unconfirmed == Obj(<< <<"isConfirmed", Bool(FALSE)>> >>)

Confirmed ==
    Obj(<< <<"isConfirmed", Bool(TRUE)>>,
           <<"blockHeight", Num(840000)>>,
           <<"blockHash", Str(Rep(48, 56) \o Rep(102, 8))>>,
           <<"blockTime", Num(1713571767)>> >>)

Statuses == {Unconfirmed, Confirmed}

\* A tweak scalar as the coin holds it: 64 hex digits.
TweakHex(n) == Str(HexEncode(Bytes32(n)))

\* No tweak, the empty string, two scalars below the group's order, the
\* order itself, the largest 32-byte number and a one-byte string.
Tweaks == {Undefined, Str(<<>>), Str(Rep(102, 64)), Str(<<48, 49>>)}
              \cup {TweakHex(n) : n \in {1, GROUP_N - 1, GROUP_N}}

\* The properties a wallet gives a coin it creates.
Partials ==
    { Obj(<< <<"txid", txid>>, <<"vout", Num(vout)>>, <<"value", value>>,
             <<"address", address>>, <<"status", status>>,
             <<"tweak", tweak>> >>) :
        txid \in Txids, vout \in 0..MaxVout, value \in Values,
        address \in Addresses, status \in Statuses, tweak \in Tweaks }

\* x coordinates of spend keys: two of points of the curve, one of none,
\* one that is no field element.
KeyXs == {7, 8, 5, 200}

\* The spend keys a caller passes: x-only, with a leading byte, and of
\* lengths that are no key's.
SpendKeys ==
    {Bytes32(x) : x \in KeyXs}
        \cup {<<pfx>> \o Bytes32(x) : pfx \in {2, 3, 4}, x \in {7, 5}}
        \cup {<<>>, Rep(0, 30) \o <<7>>, <<2, 0>> \o Bytes32(7)}

\* Fee rates: n / d for n up to MaxFeeRate.
FeeRates == {Ratio(n, d) : n \in 0..MaxFeeRate, d \in {1, 2, 4}}

\* Texts a store may hand back that no toJSON wrote: well-formed ones that
\* lack fields, and ones that are not well-formed.
IncompleteTexts ==
    { <<Punct("{"), Punct("}")>>,
      <<Punct("{"), NameToken("txid"), Punct(":"),
        StringToken(Rep(97, 64)), Punct("}")>>,
      <<Punct("{"), NameToken("vout"), Punct(":"), NumberToken(<<ZERO>>),
        Punct(","), NameToken("value"), Punct(":"), NumberToken(<<ZERO + 5>>),
        Punct("}")>>,
      <<Punct("null")>> }

MalformedTexts ==
    { <<>>,
      <<Punct("{")>>,
      <<Punct("{"), NameToken("txid"), StringToken(Rep(97, 64)), Punct("}")>>,
      <<Punct("{"), NameToken("vout"), Punct(":"),
        NumberToken(<<ZERO, ZERO + 1>>), Punct("}")>>,
      <<Punct("{"), NameToken("address"), Punct(":"),
        StringToken(<<BACKSLASH, 120>>), Punct("}")>>,
      <<Punct("{"), Punct("}"), Punct("}")>> }

NoCall == [op |-> "none", arg |-> Undefined, out |-> Return(Undefined)]

----------------------------------------------------------------------------
(* The state machine: a wallet holds one coin, the text of a stored       *)
(* record, the heap with the caller's spend-key buffer, and the last       *)
(* call's result.                                                          *)

Init ==
    /\ coin \in {Coin(partial) : partial \in Partials}
    /\ text = <<>>
    /\ orig = Undefined
    /\ mem = [b \in {} |-> <<>>]
    /\ ret = NoCall
    /\ writes = 0

\* text = coin.toJSON()
ToJSON ==
    \E json \in {toJSON(coin)} :
        /\ text' = json
        /\ orig' = coin
        /\ ret' = [op |-> "toJSON", arg |-> Undefined,
                   out |-> Return([t |-> "text", v |-> json])]
        /\ UNCHANGED <<coin, mem, writes>>

\* The store hands back a text that no toJSON wrote.
ReadText ==
    /\ \E t \in IncompleteTexts \cup MalformedTexts : text' = t
    /\ orig' = Undefined
    /\ UNCHANGED <<coin, mem, ret, writes>>

\* coin = Coin.fromJSON(text)
FromJSON ==
    \E r \in {fromJSON(text)} :
        /\ ret' = [op |-> "fromJSON", arg |-> text, out |-> r]
        /\ coin' = IF r.kind = "return" THEN r.val ELSE coin
        /\ UNCHANGED <<text, orig, mem, writes>>

\* The caller fills a buffer with a spend key and calls
\* coin.toInput(network, spendPubBuffer).
ToInput ==
    \E network \in Networks, key \in SpendKeys :
        \E r \in {toInput(coin, network, [b \in {"spendPub"} |-> key],
                          View("spendPub", 0, Len(key)))} :
            /\ ret' = [op |-> "toInput",
                       arg |-> [network |-> network, key |-> key],
                       out |-> r.out]
            /\ mem' = r.heap
            /\ writes' = 0
            /\ UNCHANGED <<coin, text, orig>>

\* After toInput has returned a descriptor, the caller writes a byte into
\* its spend-key buffer.
CallerWrite ==
    /\ ret.op = "toInput"
    /\ ret.out.kind = "return"
    /\ writes < MaxWrites
    /\ \E i \in {1, Len(mem["spendPub"])} :
          mem' = [mem EXCEPT !["spendPub"][i] = 255 - @]
    /\ writes' = writes + 1
    /\ UNCHANGED <<coin, text, orig, ret>>

\* coin.estimateSpendingSize()
EstimateSpendingSize ==
    /\ ret' = [op |-> "estimateSpendingSize", arg |-> Undefined,
               out |-> Return(Num(estimateSpendingSize(coin)))]
    /\ UNCHANGED <<coin, text, orig, mem, writes>>

\* coin.estimateSpendingFee(feeRate)
EstimateSpendingFee ==
    \E feeRate \in FeeRates :
        /\ ret' = [op |-> "estimateSpendingFee", arg |-> feeRate,
                   out |-> Return(estimateSpendingFee(coin, feeRate))]
        /\ UNCHANGED <<coin, text, orig, mem, writes>>

NextCodec == ToJSON \/ ReadText \/ FromJSON

NextInput == ToInput \/ CallerWrite

NextFee == EstimateSpendingSize \/ EstimateSpendingFee

Next == NextCodec \/ NextInput \/ NextFee

\* The codec alone, the input builder alone, the fee estimator alone, and
\* all of them.
SpecCodec == Init /\ [][NextCodec]_vars

SpecInput == Init /\ [][NextInput]_vars

SpecFee == Init /\ [][NextFee]_vars

Spec == Init /\ [][Next]_vars

----------------------------------------------------------------------------
(* Properties of the codec, checked under SpecCodec *)

\* A valid coin record: a txid, vout >= 0, value >= 0, an address, a status
\* that is unconfirmed or confirmed with height, hash and time, and a tweak
\* that is a string or absent.
ValidStatus(st) ==
    /\ st.t = "object"
    /\ Get(st, "isConfirmed").t = "boolean"
    /\ IF Get(st, "isConfirmed").v
       THEN /\ Get(st, "blockHeight").t = "number"
            /\ Get(st, "blockHash").t = "string"
            /\ Get(st, "blockTime").t = "number"
       ELSE Keys(st) = <<"isConfirmed">>

ValidCoin(c) ==
    /\ c.t = "object"
    /\ Get(c, "txid").t = "string"
    /\ Get(c, "vout").t = "number" /\ Get(c, "vout").v >= 0
    /\ Get(c, "value").t = "number" /\ Get(c, "value").v >= 0
    /\ Get(c, "address").t = "string"
    /\ ValidStatus(Get(c, "status"))
    /\ Get(c, "tweak").t \in {"undefined", "string"}

\* The last call was fromJSON of the text that toJSON wrote for the valid
\* coin orig.
RoundTripCase ==
    /\ ret.op = "fromJSON"
    /\ ret.arg = text
    /\ ValidCoin(orig)

\* C1: fromJSON(c.toJSON()) of a valid coin c returns a coin equal to c in
\* txid, vout, value, address, status and tweak; an absent tweak stays
\* absent.
C1_RoundTrip ==
    RoundTripCase =>
        /\ ret.out.kind = "return"
        /\ \A f \in CoinFields : Get(ret.out.val, f) = Get(orig, f)

\* A confirmed coin with no tweak has gone through toJSON and fromJSON.
C1_Witness ==
    /\ RoundTripCase
    /\ ret.out.kind = "return"
    /\ Get(orig, "tweak") = Undefined
    /\ Get(orig, "status") = Confirmed
    /\ Get(ret.out.val, "status") = Confirmed

\* C2: fromJSON fails with a parse error, and returns no coin, whenever the
\* text is not well-formed or is well-formed and lacks one of the required
\* fields txid, vout, value, address, status.
C2_RejectsBadRecords ==
    (ret.op = "fromJSON" /\ ret.arg \in MalformedTexts \cup IncompleteTexts)
        => ret.out.kind = "throw" /\ ret.out.val = Undefined

\* What fromJSON does with those texts: JSON.parse's SyntaxError for one that
\* is not well-formed, and a coin in which the missing fields are undefined
\* for a well-formed one that lacks required fields.
FromJSONChecksSyntaxOnly ==
    ret.op = "fromJSON" =>
        /\ ret.arg \in MalformedTexts =>
              ret.out.kind = "throw" /\ ret.out.err = "SyntaxError"
        /\ ret.arg \in IncompleteTexts =>
              /\ ret.out.kind = "return"
              /\ \E f \in RequiredFields : Get(ret.out.val, f) = Undefined

----------------------------------------------------------------------------
(* Properties of the input builder, checked under SpecInput, where the     *)
(* coin is the one toInput was called on.                                  *)

\* What a caller reads in a result: the error, or the descriptor's fields
\* with the bytes its buffers show in the heap.
DescriptorFields(out, heap) ==
    LET d == out.val
        w == Get(d, "witnessUtxo")
    IN  [hash |-> Get(d, "hash"),
         index |-> Get(d, "index"),
         value |-> Get(w, "value"),
         script |-> Deref(heap, Get(w, "script").v),
         hasInternalKey |-> HasKey(d, "tapInternalKey"),
         internalKey |-> IF HasKey(d, "tapInternalKey")
                         THEN Deref(heap, Get(d, "tapInternalKey").v)
                         ELSE <<>>]

SameOutcome(out1, heap1, out2, heap2) ==
    /\ out1.kind = out2.kind
    /\ out1.err = out2.err
    /\ out1.kind = "return" =>
          DescriptorFields(out1, heap1) = DescriptorFields(out2, heap2)

\* The x coordinates of the curve's points.
CurveXs == {x \in 0..(FIELD_P - 1) : \E y \in 0..(FIELD_P - 1) : OnCurve(x, y)}

\* The x-only form of a spend key of 32 or 33 bytes.
XOnlyOf(key) == IF Len(key) = 33 THEN Tail(key) ELSE key

\* A valid spend key: the x coordinate of a point, alone or after 0x02 or
\* 0x03.
ValidSpendKey(key) ==
    /\ Len(key) \in {32, 33}
    /\ Len(key) = 33 => key[1] \in {2, 3}
    /\ \E x \in CurveXs : XOnlyOf(key) = Bytes32(x)

\* The multiple of G that a point is.
DLog(P) == CHOOSE k \in 1..(GROUP_N - 1) : ScalarMul(k, G) = P

\* The point with even y at x, plus t times G, through the multiples of G.
TweakedPoint(x, t) == ScalarMul((DLog(LiftX(x)) + t) % GROUP_N, G)

\* The coin's tweak is 64 hex digits; the 32 bytes they spell.
TweakIsScalar ==
    /\ Get(coin, "tweak").t = "string"
    /\ Len(Get(coin, "tweak").v) = 64
    /\ \A i \in 1..64 : HexVal(Get(coin, "tweak").v[i]) >= 0

TweakBytes ==
    [i \in 1..32 |-> 16 * HexVal(Get(coin, "tweak").v[2 * i - 1])
                     + HexVal(Get(coin, "tweak").v[2 * i])]

TweakOutOfRange ==
    (\E i \in 1..31 : TweakBytes[i] # 0) \/ TweakBytes[32] >= GROUP_N

\* toInput has just returned or thrown and the caller has written nothing.
AfterToInput == ret.op = "toInput" /\ writes = 0

\* The coin has a valid tweak and the spend key is valid.
TaprootCase ==
    /\ AfterToInput
    /\ ValidSpendKey(ret.arg.key)
    /\ TweakIsScalar
    /\ ~TweakOutOfRange
    /\ ~TweakedPoint(XOnlyOf(ret.arg.key)[32], TweakBytes[32]).inf

\* C3: for a coin with a valid tweak and a valid spend key, toInput returns a
\* descriptor with outpoint (txid, vout), value coin.value, a script of 34
\* bytes 0x51, 0x20 and the x-only key tweaked by the tweak, and the
\* untweaked 32-byte x-only spend key as internal key.
C3_TaprootDescriptor ==
    TaprootCase =>
        /\ ret.out.kind = "return"
        /\ LET f == DescriptorFields(ret.out, mem)
               Q == TweakedPoint(XOnlyOf(ret.arg.key)[32], TweakBytes[32])
           IN  /\ f.hash = Get(coin, "txid")
               /\ f.index = Get(coin, "vout")
               /\ f.value = Get(coin, "value")
               /\ Len(f.script) = 34
               /\ f.script[1] = 81
               /\ f.script[2] = 32
               /\ SubSeq(f.script, 3, 34) = Bytes32(Q.x)
               /\ f.hasInternalKey
               /\ Len(f.internalKey) = 32
               /\ f.internalKey = XOnlyOf(ret.arg.key)

\* A 33-byte key with the odd marker and a valid tweak have given a
\* descriptor.
C3_Witness ==
    /\ TaprootCase
    /\ Len(ret.arg.key) = 33
    /\ ret.arg.key[1] = 3
    /\ ret.out.kind = "return"
    /\ Len(DescriptorFields(ret.out, mem).script) = 34

\* The coin's tweak is a 32-byte scalar that is out of range, or one whose
\* addition to the valid spend key gives the point at infinity.
InvalidTweakCase ==
    /\ ret.op = "toInput"
    /\ TweakIsScalar
    /\ \/ TweakOutOfRange
       \/ /\ ValidSpendKey(ret.arg.key)
          /\ TweakedPoint(XOnlyOf(ret.arg.key)[32], TweakBytes[32]).inf

\* C4: with a tweak that is out of range or that takes the spend key to the
\* point at infinity, toInput throws and returns no descriptor; with a valid
\* spend key the error is the tweak's (the library's "Expected Tweak", or
\* the TypeError of taking xOnlyPubkey from the null result).
C4_InvalidTweakFails ==
    InvalidTweakCase =>
        /\ ret.out.kind = "throw"
        /\ ret.out.val = Undefined
        /\ ValidSpendKey(ret.arg.key) =>
              ret.out.err = IF TweakOutOfRange THEN "Expected Tweak"
                            ELSE "TypeError"

\* A tweak that takes a valid spend key to the point at infinity has made
\* toInput throw.
C4_Witness ==
    /\ InvalidTweakCase
    /\ ~TweakOutOfRange
    /\ ret.out.kind = "throw"

\* The valid addresses of the model and the script each pays to, written
\* out: the version's opcode, the program's length, the program.
PlanScript(plan) ==
    IF plan.version = 0 THEN <<0, 20>> \o plan.program
    ELSE <<81, 32>> \o plan.program

ValidPlans ==
    {plan \in AddressPlans :
        \/ plan.version = 0 /\ Len(plan.program) = 20
        \/ plan.version = 1 /\ Len(plan.program) = 32}

\* The coin has no tweak and its address is valid for the call's network.
StandardCase ==
    /\ AfterToInput
    /\ Get(coin, "tweak") = Undefined
    /\ \E plan \in ValidPlans :
          /\ plan.prefix = ret.arg.network.bech32
          /\ Get(coin, "address") = AddressOf(plan)

\* C5: for a coin with no tweak and an address valid for the network,
\* toInput returns a descriptor of exactly outpoint (txid, vout) and
\* witnessUtxo (the address's output script, coin.value), with no internal
\* key, whatever the spend key.
C5_StandardDescriptor ==
    StandardCase =>
        /\ ret.out.kind = "return"
        /\ Keys(ret.out.val) = <<"hash", "index", "witnessUtxo">>
        /\ Keys(Get(ret.out.val, "witnessUtxo")) = <<"script", "value">>
        /\ LET f == DescriptorFields(ret.out, mem)
           IN  /\ f.hash = Get(coin, "txid")
               /\ f.index = Get(coin, "vout")
               /\ f.value = Get(coin, "value")
               /\ ~f.hasInternalKey
               /\ \A plan \in ValidPlans :
                     Get(coin, "address") = AddressOf(plan) =>
                         f.script = PlanScript(plan)

\* A coin with no tweak and a testnet address has given a descriptor though
\* the spend key was empty.
C5_Witness ==
    /\ StandardCase
    /\ ret.arg.network = testnet
    /\ ret.arg.key = <<>>
    /\ ret.out.kind = "return"
    /\ DescriptorFields(ret.out, mem).script = <<0, 20>> \o Hash20

\* The spend key is 33 bytes and starts with 0x02 or 0x03.
ParityCase ==
    /\ AfterToInput
    /\ Len(ret.arg.key) = 33
    /\ ret.arg.key[1] \in {2, 3}

\* The same call with the key's leading byte changed to the other marker.
OtherParityCall ==
    toInput(coin, ret.arg.network,
            [b \in {"spendPub"} |-> <<5 - ret.arg.key[1]>> \o Tail(ret.arg.key)],
            View("spendPub", 0, 33))

\* C6: two 33-byte spend keys that differ only in the leading byte, 0x02
\* against 0x03, give the same outcome: the same descriptor field for field
\* or the same failure.
C6_ParityIndependence ==
    ParityCase =>
        SameOutcome(ret.out, mem, OtherParityCall.out, OtherParityCall.heap)

\* A key with the odd marker has given a taproot descriptor.
C6_Witness ==
    /\ ParityCase
    /\ ret.arg.key[1] = 3
    /\ ret.out.kind = "return"
    /\ DescriptorFields(ret.out, mem).hasInternalKey

\* C9 as stated: with a spend key of neither 32 nor 33 bytes toInput fails
\* with the invalid-key error, for a coin with or without a tweak.
C9_BadKeyLengthFails ==
    (ret.op = "toInput" /\ Len(ret.arg.key) \notin {32, 33}) =>
        ret.out.kind = "throw" /\ ret.out.err = "Expected Point"

\* C9 amended: with a spend key of neither 32 nor 33 bytes, toInput on a coin
\* whose tweak is a non-empty string throws the invalid-point error and
\* returns no descriptor; on a coin with no tweak the key is not examined:
\* no key error is thrown, and a coin whose address is valid for the network
\* gets its descriptor.
C9_BadKeyLengthFailsWithTweak ==
    (ret.op = "toInput" /\ Len(ret.arg.key) \notin {32, 33}) =>
        /\ Truthy(Get(coin, "tweak")) =>
              /\ ret.out.kind = "throw"
              /\ ret.out.err = "Expected Point"
              /\ ret.out.val = Undefined
        /\ ~Truthy(Get(coin, "tweak")) =>
              /\ ret.out.err # "Expected Point"
              /\ (\E plan \in ValidPlans :
                     /\ plan.prefix = ret.arg.network.bech32
                     /\ Get(coin, "address") = AddressOf(plan))
                    => ret.out.kind = "return"

\* A 31-byte key and a coin with a tweak have made toInput throw.
C9_Witness ==
    /\ ret.op = "toInput"
    /\ Len(ret.arg.key) = 31
    /\ Truthy(Get(coin, "tweak"))
    /\ ret.out.kind = "throw"
    /\ ret.out.err = "Expected Point"

\* C10: toInput writes neither to the coin nor to the caller's spend-key
\* buffer, and a write of the caller into that buffer after toInput has
\* returned changes no field of the returned descriptor.
C10_NoSharing ==
    [][/\ (writes' = 0 /\ ret'.op = "toInput") =>
              coin' = coin /\ mem'["spendPub"] = ret'.arg.key
       /\ (writes' = writes + 1) =>
              DescriptorFields(ret'.out, mem') = DescriptorFields(ret.out, mem)
      ]_vars

----------------------------------------------------------------------------
(* Properties of the fee estimator, checked under SpecFee *)

\* C7: estimateSpendingSize returns 69 for every coin, whatever its value,
\* status, address and tweak: 41 non-witness bytes plus 109 witness bytes
\* divided by the scale factor 4, rounded up.
C7_SizeIs69 ==
    ret.op = "estimateSpendingSize" =>
        /\ ret.out = Return(Num(69))
        /\ ret.out.val.v * 4 = 41 * 4 + 109 + 3

\* The size of a confirmed coin with a tweak has been estimated.
C7_Witness ==
    /\ ret.op = "estimateSpendingSize"
    /\ ret.out.kind = "return"
    /\ Truthy(Get(coin, "tweak"))
    /\ Get(coin, "status") = Confirmed

\* C8: estimateSpendingFee(feeRate) returns exactly 69 * feeRate for every
\* coin and every feeRate >= 0, a fractional one too, with no rounding and
\* no clamping: 345 for 5, 0 for 0.
C8_FeeIsLinear ==
    ret.op = "estimateSpendingFee" =>
        /\ ret.out.kind = "return"
        /\ ret.out.val.n * ret.arg.d = 69 * ret.arg.n * ret.out.val.d
        /\ ret.arg = Ratio(5, 1) => ret.out.val = Ratio(345, 1)
        /\ ret.arg = Ratio(0, 1) => ret.out.val = Ratio(0, 1)

\* The fee at 5 per vbyte has been estimated as 345.
C8_Witness ==
    /\ ret.op = "estimateSpendingFee"
    /\ ret.arg = Ratio(5, 1)
    /\ ret.out.val = Ratio(345, 1)

====
